---------------------------- MODULE Spec2Model ----------------------------
(***************************************************************************)
(* Start-up of the interactive play session of diamond_mariokart/play.py:  *)
(* main() parses the options, checks them, composes the base              *)
(* configuration, computes the window size, runs prepare_play_mode() and   *)
(* starts Game.run().  One action per statement group of the two           *)
(* functions; an exception raised by any call propagates out of main()    *)
(* (there is no try/except in the file) and ends the process.              *)
(***************************************************************************)
EXTENDS Integers, Sequences, FiniteSets, TLC

(***************************************************************************)
(* Bounds of the model.                                                    *)
(***************************************************************************)
\* conditioning lengths declared by a bundle range over 1..MaxCond
MaxCond == 2

(***************************************************************************)
(* Python values.  A value carries its type, because == between a          *)
(* pathlib.Path and a str (or None) is False whatever the contents.        *)
(* A path is the sequence of its components; a component is <<stem, ext>>. *)
(***************************************************************************)
PyNone == [t |-> "NoneType", parts |-> <<>>]
PyStr(parts) == [t |-> "str", parts |-> parts]
PyPath(parts) == [t |-> "Path", parts |-> parts]

\* x == y of Python for the three types above: values of different types
\* never compare equal (Path.__eq__ returns NotImplemented for a str).
PyEq(x, y) == x.t = y.t /\ x.parts = y.parts

Comp(s) == <<s, "">>
File(s, ext) == <<s, ext>>

\* path / f"..." for a relative right-hand side given by its components
Join(path, comps) == PyPath(path.parts \o comps)

(***************************************************************************)
(* Inputs.                                                                 *)
(***************************************************************************)
\* what is typed after --model: absent, the empty string, or a directory
NoModelArg == [given |-> FALSE, text |-> <<>>]
ModelArgs ==
    { NoModelArg,
      [given |-> TRUE, text |-> <<>>],
      [given |-> TRUE, text |-> <<Comp("models")>>] }

SizeMultipliers == {2, 3}

Argv ==
    [ record : BOOLEAN,
      store_denoising_trajectory : BOOLEAN,
      store_original_obs : BOOLEAN,
      compile : BOOLEAN,
      size_multiplier : SizeMultipliers,
      model : ModelArgs ]

\* cfg.env.train.size: an int (square) or a two-element list
IntSize(s) == [t |-> "int", v |-> <<s>>]
ListSize(a, b) == [t |-> "list", v |-> <<a, b>>]
BaseSizes == { IntSize(64), ListSize(64, 128) }

ModelNames == {"track-a", "track-b"}
CondLengths == 1 .. MaxCond

\* the directory snapshot_download returns
HfCache == PyPath(<<Comp("hf_cache")>>)
RepoId == "DereWah/diamond-mariokart64"

(***************************************************************************)
(* Pure parts of the code.                                                 *)
(***************************************************************************)
\* argparse: --model has type=Path, so a given string s becomes Path(s)
\* (Path("") has no components and prints as "."); without the option the
\* attribute is None.
parse_model(m) == IF m.given THEN PyPath(m.text) ELSE PyNone

parse_args(argv) ==
    [ record |-> argv.record,
      store_denoising_trajectory |-> argv.store_denoising_trajectory,
      store_original_obs |-> argv.store_original_obs,
      compile |-> argv.compile,
      size_multiplier |-> argv.size_multiplier,
      model |-> parse_model(argv.model) ]

\* check_args: the condition of the warning, and the returned value
WarnsStoreMut(args) ==
    args.store_denoising_trajectory \/ args.store_original_obs

WarnsStore(args) ==
    ~args.record /\ (args.store_denoising_trajectory \/ args.store_original_obs)

check_args(args) == TRUE

\* main, lines 109-110: w, h = ...; size_h, size_w = h * m, w * m;
\* Game receives (size_h, size_w).
WindowSize(size, m) ==
    LET wh == IF size.t = "int" THEN <<size.v[1], size.v[1]>> ELSE size.v
        w == wh[1]
        h == wh[2]
        size_h == h * m
        size_w == w * m
    IN  <<size_h, size_w>>

\* prepare_play_mode, line 49
UseRemoteMut(model) == TRUE

UseRemote(model) == PyEq(model, PyStr(<<>>)) \/ PyEq(model, PyNone)

\* allow_patterns=f"{model_name}/*"
AllowPattern(name) == <<Comp(name), Comp("*")>>

\* lines 54-59
CkptPath(path_hf, name) == Join(path_hf, <<Comp(name), Comp("model"), File(name, ".pt")>>)
SpawnDir(path_hf, name) == Join(path_hf, <<Comp(name), Comp("spawn")>>)
AgentYaml(path_hf, name) ==
    Join(path_hf, <<Comp(name), Comp("config"), Comp("agent"), File(name, ".yaml")>>)
EnvYaml(path_hf, name) ==
    Join(path_hf, <<Comp(name), Comp("config"), Comp("env"), File(name, ".yaml")>>)

\* lines 61-66
SelectDeviceMut(cuda, mps) ==
    IF mps THEN "mps" ELSE IF cuda THEN "cuda" ELSE "cpu"

SelectDevice(cuda, mps) ==
    IF cuda THEN "cuda" ELSE IF mps THEN "mps" ELSE "cpu"

\* line 68
TrainIdOkMut(id, name) == TRUE

TrainIdOk(id, name) == id = name

Max(x, y) == IF x >= y THEN x ELSE y

\* lines 76-78
ContextLengthMut(a, b, has_upsampler) == a

ContextLength(a, b, has_upsampler) ==
    IF has_upsampler THEN Max(a, b) ELSE a

\* line 80: the keyword argument is the literal True
ReturnDenoisingTrajectoryMut(args) == args.store_denoising_trajectory

ReturnDenoisingTrajectory(args) == TRUE

\* line 82
ShouldCompileMut(device, args) == args.compile

ShouldCompile(device, args) == device = "cuda" /\ args.compile

(***************************************************************************)
(* State.                                                                  *)
(***************************************************************************)
VARIABLES
    pc,             \* the statement group main() is about to execute
    argv,           \* the command line
    args,           \* the Namespace parse_args returned
    warnings,       \* number of "Warning: not in recording mode" lines printed
    cfg_env,        \* cfg.env
    cfg_agent,      \* cfg.agent
    size,           \* (size_h, size_w)
    model_name,     \* the answer to input("Model name: ")
    snapshot_calls, \* the calls of snapshot_download made so far
    path_hf, path_ckpt, spawn_dir,
    device,
    agent,          \* the Agent wrapper
    sl,
    wm_env,         \* the WorldModelEnv
    play_env,       \* the PlayEnv
    game,           \* the Game and the number of times run() was called
    log,            \* the statement groups begun so far, in order
    failedAt        \* the statement group whose exception ended the process

vars ==
    << pc, argv, args, warnings, cfg_env, cfg_agent, size, model_name,
       snapshot_calls, path_hf, path_ckpt, spawn_dir, device, agent, sl,
       wm_env, play_env, game, log, failedAt >>

Unbound == [t |-> "unbound"]

\* the statement groups of main() and prepare_play_mode(), in program order
ProgramOrder ==
    << "parse_args", "check_args", "compose", "window_size", "input",
       "resolve", "override", "device", "validate", "agent", "load",
       "context", "wm_env", "compile", "play_env", "game", "run" >>

IndexOf(p) == CHOOSE i \in 1 .. Len(ProgramOrder) : ProgramOrder[i] = p

SuccessorMut(p) ==
    IF p = "window_size" THEN "run"
    ELSE IF p = "run" THEN "done"
    ELSE ProgramOrder[IndexOf(p) + 1]

\* the statement group executed after p when p raises nothing
Successor(p) ==
    IF p = "run" THEN "done" ELSE ProgramOrder[IndexOf(p) + 1]

\* the calls that can raise: everything between the option check and the
\* return of Game.run(), except the availability probes of lines 61-66
Fallible ==
    { "compose", "window_size", "input", "resolve", "override", "validate",
      "agent", "load", "context", "wm_env", "compile", "play_env", "game" }

Init ==
    /\ pc = "parse_args"
    /\ argv \in Argv
    /\ args = Unbound
    /\ warnings = 0
    /\ cfg_env = Unbound
    /\ cfg_agent = Unbound
    /\ size = Unbound
    /\ model_name = "unbound"
    /\ snapshot_calls = <<>>
    /\ path_hf = Unbound
    /\ path_ckpt = Unbound
    /\ spawn_dir = Unbound
    /\ device = "unbound"
    /\ agent = Unbound
    /\ sl = -1
    /\ wm_env = Unbound
    /\ play_env = Unbound
    /\ game = [built |-> FALSE, runs |-> 0]
    /\ log = <<>>
    /\ failedAt = "none"

Step(p) ==
    /\ pc = p
    /\ log' = Append(log, p)

\* line 100
ParseArgs ==
    /\ Step("parse_args")
    /\ args' = parse_args(argv)
    /\ pc' = Successor(pc)
    /\ UNCHANGED << argv, warnings, cfg_env, cfg_agent, size, model_name,
                    snapshot_calls, path_hf, path_ckpt, spawn_dir, device,
                    agent, sl, wm_env, play_env, game, failedAt >>

\* lines 101-103 and 39-42
CheckArgs ==
    /\ Step("check_args")
    /\ warnings' = IF WarnsStore(args) THEN warnings + 1 ELSE warnings
    /\ pc' = IF check_args(args) THEN Successor(pc) ELSE "returned"
    /\ UNCHANGED << argv, args, cfg_env, cfg_agent, size, model_name,
                    snapshot_calls, path_hf, path_ckpt, spawn_dir, device,
                    agent, sl, wm_env, play_env, game, failedAt >>

TrainerYaml == PyPath(<<Comp(".."), Comp("config"), File("trainer", ".yaml")>>)

\* lines 105-107
Compose ==
    /\ Step("compose")
    /\ \E s \in BaseSizes :
          cfg_env' = [origin |-> TrainerYaml, size |-> s]
    /\ cfg_agent' = [origin |-> TrainerYaml]
    /\ pc' = Successor(pc)
    /\ UNCHANGED << argv, args, warnings, size, model_name, snapshot_calls,
                    path_hf, path_ckpt, spawn_dir, device, agent, sl, wm_env,
                    play_env, game, failedAt >>

\* lines 109-110
ComputeWindowSize ==
    /\ Step("window_size")
    /\ size' = WindowSize(cfg_env.size, args.size_multiplier)
    /\ pc' = Successor(pc)
    /\ UNCHANGED << argv, args, warnings, cfg_env, cfg_agent, model_name,
                    snapshot_calls, path_hf, path_ckpt, spawn_dir, device,
                    agent, sl, wm_env, play_env, game, failedAt >>

\* line 47
InputModelName ==
    /\ Step("input")
    /\ model_name' \in ModelNames
    /\ pc' = Successor(pc)
    /\ UNCHANGED << argv, args, warnings, cfg_env, cfg_agent, size,
                    snapshot_calls, path_hf, path_ckpt, spawn_dir, device,
                    agent, sl, wm_env, play_env, game, failedAt >>

\* lines 49-55
ResolveBundle ==
    /\ Step("resolve")
    /\ IF UseRemote(args.model)
       THEN /\ snapshot_calls' =
                   Append(snapshot_calls,
                          [repo_id |-> RepoId,
                           allow_patterns |-> AllowPattern(model_name)])
            /\ path_hf' = HfCache
       ELSE /\ snapshot_calls' = snapshot_calls
            /\ path_hf' = args.model
    /\ path_ckpt' = CkptPath(path_hf', model_name)
    /\ spawn_dir' = SpawnDir(path_hf', model_name)
    /\ pc' = Successor(pc)
    /\ UNCHANGED << argv, args, warnings, cfg_env, cfg_agent, size,
                    model_name, device, agent, sl, wm_env, play_env, game,
                    failedAt >>

\* lines 58-59: the two documents of the bundle replace cfg.agent and cfg.env
OverrideConfig ==
    /\ Step("override")
    /\ \E a \in CondLengths, b \in CondLengths :
          cfg_agent' = [origin |-> AgentYaml(path_hf, model_name),
                        denoiser_num_steps_conditioning |-> a,
                        upsampler_num_steps_conditioning |-> b]
    /\ \E id \in ModelNames, s \in BaseSizes :
          cfg_env' = [origin |-> EnvYaml(path_hf, model_name),
                      train_id |-> id, size |-> s]
    /\ pc' = Successor(pc)
    /\ UNCHANGED << argv, args, warnings, size, model_name, snapshot_calls,
                    path_hf, path_ckpt, spawn_dir, device, agent, sl, wm_env,
                    play_env, game, failedAt >>

\* lines 61-66
ChooseDevice ==
    /\ Step("device")
    /\ \E cuda \in BOOLEAN, mps \in BOOLEAN :
          device' = [type |-> SelectDevice(cuda, mps),
                     cuda_available |-> cuda, mps_available |-> mps]
    /\ pc' = Successor(pc)
    /\ UNCHANGED << argv, args, warnings, cfg_env, cfg_agent, size,
                    model_name, snapshot_calls, path_hf, path_ckpt, spawn_dir,
                    agent, sl, wm_env, play_env, game, failedAt >>

\* lines 68-69: a failed assert raises AssertionError
ValidateTrainId ==
    /\ Step("validate")
    /\ IF TrainIdOk(cfg_env.train_id, model_name)
       THEN /\ pc' = Successor(pc)
            /\ failedAt' = failedAt
       ELSE /\ pc' = "failed"
            /\ failedAt' = "validate"
    /\ UNCHANGED << argv, args, warnings, cfg_env, cfg_agent, size,
                    model_name, snapshot_calls, path_hf, path_ckpt, spawn_dir,
                    device, agent, sl, wm_env, play_env, game >>

\* line 72: Agent(instantiate(...)).to(device).eval(); whether the agent has
\* an upsampler is decided by the Agent class
InstantiateAgent ==
    /\ Step("agent")
    /\ \E u \in BOOLEAN :
          agent' = [device |-> device.type, eval |-> TRUE,
                    upsampler |-> u, ckpt |-> Unbound]
    /\ pc' = Successor(pc)
    /\ UNCHANGED << argv, args, warnings, cfg_env, cfg_agent, size,
                    model_name, snapshot_calls, path_hf, path_ckpt, spawn_dir,
                    device, sl, wm_env, play_env, game, failedAt >>

\* line 73
LoadCheckpoint ==
    /\ Step("load")
    /\ agent' = [agent EXCEPT !.ckpt = path_ckpt]
    /\ pc' = Successor(pc)
    /\ UNCHANGED << argv, args, warnings, cfg_env, cfg_agent, size,
                    model_name, snapshot_calls, path_hf, path_ckpt, spawn_dir,
                    device, sl, wm_env, play_env, game, failedAt >>

\* lines 76-78
ResolveContext ==
    /\ Step("context")
    /\ sl' = ContextLength(cfg_agent.denoiser_num_steps_conditioning,
                           cfg_agent.upsampler_num_steps_conditioning,
                           agent.upsampler)
    /\ pc' = Successor(pc)
    /\ UNCHANGED << argv, args, warnings, cfg_env, cfg_agent, size,
                    model_name, snapshot_calls, path_hf, path_ckpt, spawn_dir,
                    device, agent, wm_env, play_env, game, failedAt >>

\* lines 79-80
BuildWorldModelEnv ==
    /\ Step("wm_env")
    /\ wm_env' = [spawn_dir |-> spawn_dir,
                  num_envs |-> 1,
                  seq_length |-> sl,
                  return_denoising_trajectory |-> ReturnDenoisingTrajectory(args),
                  predict_next_obs |-> "original",
                  upsample_next_obs |-> "original"]
    /\ pc' = Successor(pc)
    /\ UNCHANGED << argv, args, warnings, cfg_env, cfg_agent, size,
                    model_name, snapshot_calls, path_hf, path_ckpt, spawn_dir,
                    device, agent, sl, play_env, game, failedAt >>

\* lines 82-85
CompileModels ==
    /\ Step("compile")
    /\ wm_env' = IF ShouldCompile(device.type, args)
                 THEN [wm_env EXCEPT !.predict_next_obs = "compiled",
                                     !.upsample_next_obs = "compiled"]
                 ELSE wm_env
    /\ pc' = Successor(pc)
    /\ UNCHANGED << argv, args, warnings, cfg_env, cfg_agent, size,
                    model_name, snapshot_calls, path_hf, path_ckpt, spawn_dir,
                    device, agent, sl, play_env, game, failedAt >>

\* lines 87-95
BuildPlayEnv ==
    /\ Step("play_env")
    /\ play_env' = [record |-> args.record,
                    store_denoising_trajectory |-> args.store_denoising_trajectory,
                    store_original_obs |-> args.store_original_obs]
    /\ pc' = Successor(pc)
    /\ UNCHANGED << argv, args, warnings, cfg_env, cfg_agent, size,
                    model_name, snapshot_calls, path_hf, path_ckpt, spawn_dir,
                    device, agent, sl, wm_env, game, failedAt >>

\* line 113
BuildGame ==
    /\ Step("game")
    /\ game' = [built |-> TRUE, runs |-> 0, size |-> size]
    /\ pc' = Successor(pc)
    /\ UNCHANGED << argv, args, warnings, cfg_env, cfg_agent, size,
                    model_name, snapshot_calls, path_hf, path_ckpt, spawn_dir,
                    device, agent, sl, wm_env, play_env, failedAt >>

\* line 114
RunGame ==
    /\ Step("run")
    /\ game' = [game EXCEPT !.runs = @ + 1]
    /\ pc' = Successor(pc)
    /\ UNCHANGED << argv, args, warnings, cfg_env, cfg_agent, size,
                    model_name, snapshot_calls, path_hf, path_ckpt, spawn_dir,
                    device, agent, sl, wm_env, play_env, failedAt >>

\* an exception raised by the call at pc: nothing in main() catches it
Raise ==
    /\ pc \in Fallible
    \* lines 82-85 call nothing unless the condition of line 82 holds
    /\ pc = "compile" => ShouldCompile(device.type, args)
    /\ log' = Append(log, pc)
    /\ failedAt' = pc
    /\ pc' = "failed"
    /\ UNCHANGED << argv, args, warnings, cfg_env, cfg_agent, size,
                    model_name, snapshot_calls, path_hf, path_ckpt, spawn_dir,
                    device, agent, sl, wm_env, play_env, game >>

Next ==
    \/ ParseArgs
    \/ CheckArgs
    \/ Compose
    \/ ComputeWindowSize
    \/ InputModelName
    \/ ResolveBundle
    \/ OverrideConfig
    \/ ChooseDevice
    \/ ValidateTrainId
    \/ InstantiateAgent
    \/ LoadCheckpoint
    \/ ResolveContext
    \/ BuildWorldModelEnv
    \/ CompileModels
    \/ BuildPlayEnv
    \/ BuildGame
    \/ RunGame
    \/ Raise

Spec == Init /\ [][Next]_vars

(***************************************************************************)
(* Properties.                                                             *)
(***************************************************************************)
\* the statement group p was begun / was completed without an exception
Begun(p) == \E i \in 1 .. Len(log) : log[i] = p
Completed(p) == Begun(p) /\ failedAt # p

\* C1: the size handed to the play loop is the configured base size scaled
\* component-wise by the multiplier with the component order preserved:
\* an int s gives (s*m, s*m), a pair (a, b) gives (a*m, b*m).
C1_WindowSizeKeepsOrder ==
    /\ (Completed("window_size") /\ ~Completed("override")) =>
          LET m == args.size_multiplier
              base == cfg_env.size
          IN  size = IF base.t = "int"
                     THEN << base.v[1] * m, base.v[1] * m >>
                     ELSE << base.v[1] * m, base.v[2] * m >>
    /\ game.built => game.size = size

\* C2: once the environment document of the bundle declares a training id
\* different from the entered model name, the run aborts at the validation
\* and no agent, checkpoint, world environment, PlayEnv or Game exists and
\* the play loop is not started.
C2_MismatchAborts ==
    (Completed("override") /\ cfg_env.train_id # model_name) =>
        /\ agent = Unbound
        /\ wm_env = Unbound
        /\ play_env = Unbound
        /\ ~game.built
        /\ game.runs = 0
        /\ pc \in {"device", "validate", "failed"}
        /\ Begun("validate") => (pc = "failed" /\ failedAt = "validate")

C2_Witness ==
    /\ Completed("override")
    /\ cfg_env.train_id # model_name
    /\ Begun("validate")
    /\ pc = "failed"
    /\ device.type = "cuda"

\* C3: with a directory D given after --model and name N entered, no call of
\* snapshot_download is ever made and the checkpoint path is D/N/model/N.pt,
\* the spawn directory D/N/spawn, and the two documents loaded are
\* D/N/config/agent/N.yaml and D/N/config/env/N.yaml.
C3_LocalOverride ==
    argv.model.given =>
        LET D == argv.model.text
            N == model_name
        IN  /\ snapshot_calls = <<>>
            /\ Completed("resolve") =>
                  /\ path_ckpt.t = "Path"
                  /\ path_ckpt.parts = D \o << <<N, "">>, <<"model", "">>, <<N, ".pt">> >>
                  /\ spawn_dir.t = "Path"
                  /\ spawn_dir.parts = D \o << <<N, "">>, <<"spawn", "">> >>
            /\ Completed("override") =>
                  /\ cfg_agent.origin.parts =
                        D \o << <<N, "">>, <<"config", "">>, <<"agent", "">>, <<N, ".yaml">> >>
                  /\ cfg_env.origin.parts =
                        D \o << <<N, "">>, <<"config", "">>, <<"env", "">>, <<N, ".yaml">> >>

C3_Witness ==
    /\ argv.model.given
    /\ argv.model.text = << <<"models", "">> >>
    /\ model_name = "track-a"
    /\ Completed("override")
    /\ path_ckpt.parts = << <<"models", "">>, <<"track-a", "">>, <<"model", "">>, <<"track-a", ".pt">> >>

\* C4: whatever the availability of cuda and mps, one device among cuda, mps
\* and cpu is chosen, the first available in that order; cpu exactly when
\* neither cuda nor mps is available; the selection raises nothing.
C4_DevicePriority ==
    /\ failedAt # "device"
    /\ Completed("device") =>
          /\ device.type \in {"cuda", "mps", "cpu"}
          /\ device.cuda_available => device.type = "cuda"
          /\ (~device.cuda_available /\ device.mps_available) => device.type = "mps"
          /\ device.type = "cpu" <=> (~device.cuda_available /\ ~device.mps_available)

C4_Witness ==
    /\ Completed("device")
    /\ device.cuda_available
    /\ device.mps_available
    /\ device.type = "cuda"

\* C5: the context length given to the world environment is max(a, b) when
\* the loaded agent has an upsampler and a otherwise, a and b being the
\* conditioning lengths of the denoiser and of the upsampler; it is bound only
\* after the checkpoint is loaded, once, and is at least the conditioning
\* length of every stage the agent has.
C5_ContextLength ==
    /\ ~Completed("load") => sl = -1
    /\ Completed("wm_env") =>
          LET a == cfg_agent.denoiser_num_steps_conditioning
              b == cfg_agent.upsampler_num_steps_conditioning
              n == wm_env.seq_length
          IN  /\ n = sl
              /\ n >= a
              /\ agent.upsampler => (n >= b /\ n \in {a, b})
              /\ ~agent.upsampler => n = a
              /\ Cardinality({i \in 1 .. Len(log) : log[i] = "context"}) = 1

C5_Witness ==
    /\ Completed("wm_env")
    /\ agent.upsampler
    /\ cfg_agent.denoiser_num_steps_conditioning = 1
    /\ cfg_agent.upsampler_num_steps_conditioning = 2
    /\ wm_env.seq_length = 2

\* C6: for every combination of --record and the two --store options main
\* never returns after check_args; the warning is printed exactly when
\* recording is off and one of the two --store options is on.
C6_WarnOnly ==
    /\ pc # "returned"
    /\ ~Begun("check_args") => warnings = 0
    /\ Completed("check_args") =>
          /\ Begun("compose") \/ pc = "compose"
          /\ warnings =
                IF ~argv.record /\ (argv.store_denoising_trajectory \/ argv.store_original_obs)
                THEN 1 ELSE 0

C6_Witness ==
    /\ ~argv.record
    /\ argv.store_original_obs
    /\ ~argv.store_denoising_trajectory
    /\ warnings = 1
    /\ game.runs = 1

\* C7: the two per-step call paths of the world environment are the compiled
\* ones exactly when --compile is set and the device is cuda, and the
\* original ones otherwise; with --compile on a cpu device nothing is
\* compiled and the compilation step raises nothing.
C7_CompileGating ==
    /\ (Completed("wm_env") /\ ~Completed("compile")) =>
          (wm_env.predict_next_obs = "original" /\ wm_env.upsample_next_obs = "original")
    /\ Completed("compile") =>
          LET on == argv.compile /\ device.type = "cuda"
          IN  /\ on => (wm_env.predict_next_obs = "compiled" /\ wm_env.upsample_next_obs = "compiled")
              /\ ~on => (wm_env.predict_next_obs = "original" /\ wm_env.upsample_next_obs = "original")
    /\ failedAt = "compile" => (argv.compile /\ device.type = "cuda")

C7_Witness ==
    /\ Completed("compile")
    /\ argv.compile
    /\ device.type = "cpu"
    /\ wm_env.predict_next_obs = "original"
    /\ wm_env.upsample_next_obs = "original"
    /\ game.runs = 1

\* C8 as stated: the retain-denoising-trajectory setting of the world
\* environment equals the value of --store-denoising-trajectory in every run.
C8_Original ==
    Completed("wm_env") =>
        wm_env.return_denoising_trajectory = argv.store_denoising_trajectory

\* C8 amended: the world environment is always built with its
\* retain-denoising-trajectory setting on, whatever the options; the two
\* capture flags are handed unchanged to the PlayEnv.
C8_Amended ==
    /\ Completed("wm_env") => wm_env.return_denoising_trajectory = TRUE
    /\ Completed("play_env") =>
          /\ play_env.store_denoising_trajectory = argv.store_denoising_trajectory
          /\ play_env.store_original_obs = argv.store_original_obs

C8_Witness ==
    /\ Completed("play_env")
    /\ ~argv.store_denoising_trajectory
    /\ wm_env.return_denoising_trajectory
    /\ ~play_env.store_denoising_trajectory

\* C9: Game.run is called at most once, and only after every start-up step
\* was completed once, in program order; a run in which a step failed never
\* starts the play loop and begins no step twice.
C9_StartupOrder ==
    /\ game.runs <= 1
    /\ \A i, j \in 1 .. Len(log) : log[i] = log[j] => i = j
    /\ failedAt # "none" => (game.runs = 0 /\ pc = "failed" /\ log[Len(log)] = failedAt)
    /\ game.runs = 1 =>
          /\ failedAt = "none"
          /\ log = << "parse_args", "check_args", "compose", "window_size",
                      "input", "resolve", "override", "device", "validate",
                      "agent", "load", "context", "wm_env", "compile",
                      "play_env", "game", "run" >>
          /\ cfg_env.train_id = model_name
          /\ agent.device = device.type
          /\ agent.eval
          /\ agent.ckpt = path_ckpt
          /\ wm_env # Unbound
          /\ play_env # Unbound
          /\ game.built

C9_Witness ==
    /\ game.runs = 1
    /\ pc = "done"

\* C10: an absent --model and --model given as the empty string both mean
\* remote retrieval: one call of snapshot_download restricted to the subtree
\* of the entered name; only a non-empty --model selects the local directory.
C10_EmptyMeansRemote ==
    Completed("resolve") =>
        IF ~argv.model.given \/ argv.model.text = <<>>
        THEN /\ Len(snapshot_calls) = 1
             /\ snapshot_calls[1].allow_patterns = << <<model_name, "">>, <<"*", "">> >>
             /\ path_hf = HfCache
        ELSE /\ snapshot_calls = <<>>
             /\ path_hf.parts = argv.model.text

=============================================================================
